---- MODULE Spec2Model ----
(***************************************************************************)
(* Entity Hoarder (entity-hoarder/entity-hoarder.py): the SQLite record    *)
(* store `entities`, the FTS5 index `entities_fts` kept by triggers, the   *)
(* search dispatcher and the ranking function.                             *)
(*                                                                         *)
(* Text is a sequence of one-character strings, so that lower-casing,      *)
(* trimming, slugs, LIKE and tokenising are computed, not assumed.         *)
(* Python's None / SQL NULL is the one-element sequence None, and a key    *)
(* missing from a dict is Absent; neither is a text, because their element *)
(* is not a character.                                                     *)
(***************************************************************************)
EXTENDS Integers, Sequences, FiniteSets, TLC

\* ------------------------------------------------------------------ bounds
MaxId == 2        \* rows the AUTOINCREMENT counter may hand out
MaxClock == 2     \* commits (each happens at a later now_iso())
MaxLimit == 1     \* largest LIMIT passed to search_entities
MaxCands == 3     \* longest candidate list passed to rank_candidates
MaxTopN == 2      \* largest top_n passed to rank_candidates
MaxScore == 1     \* largest score the rapidfuzz scorer hands back

\* ------------------------------------------------------- program constants
SlugMaxLen == 200

None == <<"None">>
Absent == <<"Absent">>

\* ------------------------------------------------------------------- text
Min(a, b) == IF a <= b THEN a ELSE b

\* str.lower() on the model's alphabet {a, b, B, t, x, space, -}
Lower(c) == IF c = "B" THEN "b" ELSE c

LowerStr(s) == [i \in 1..Len(s) |-> Lower(s[i])]

\* str.isalnum() on the model's alphabet
IsAlnum(c) == c \in {"a", "b", "B", "t", "x"}

IsSpace(c) == c = " "

\* s.replace('--', '-'): one left-to-right pass over non-overlapping pairs
RECURSIVE ReplaceDashes(_)
ReplaceDashes(s) ==
  IF Len(s) < 2 THEN s
  ELSE IF s[1] = "-" /\ s[2] = "-"
       THEN <<"-">> \o ReplaceDashes(SubSeq(s, 3, Len(s)))
       ELSE <<s[1]>> \o ReplaceDashes(Tail(s))

HasDashes(s) == \E i \in 1..(Len(s) - 1) : s[i] = "-" /\ s[i + 1] = "-"

\* while '--' in s: s = s.replace('--', '-')
RECURSIVE CollapseDashes(_)
CollapseDashes(s) == IF HasDashes(s) THEN CollapseDashes(ReplaceDashes(s)) ELSE s

\* s.strip('-')
RECURSIVE StripDash(_)
StripDash(s) ==
  IF s = <<>> THEN s
  ELSE IF s[1] = "-" THEN StripDash(Tail(s))
  ELSE IF s[Len(s)] = "-" THEN StripDash(SubSeq(s, 1, Len(s) - 1))
  ELSE s

\* query.strip()
RECURSIVE Strip(_)
Strip(s) ==
  IF s = <<>> THEN s
  ELSE IF IsSpace(s[1]) THEN Strip(Tail(s))
  ELSE IF IsSpace(s[Len(s)]) THEN Strip(SubSeq(s, 1, Len(s) - 1))
  ELSE s

slugify(name) ==
  LET lowered == LowerStr(name)
      dashed == [i \in 1..Len(lowered) |->
                   IF IsAlnum(lowered[i]) THEN lowered[i] ELSE "-"]
      stripped == StripDash(CollapseDashes(dashed))
  IN SubSeq(stripped, 1, Min(Len(stripped), SlugMaxLen))

\* json.dumps of a mapping written flat as <<k1, v1, k2, v2, ...>>
RECURSIVE JsonItems(_)
JsonItems(m) ==
  IF m = <<>> THEN ""
  ELSE "\"" \o m[1] \o "\": \"" \o m[2] \o "\""
       \o (IF Len(m) > 2 THEN ", " ELSE "") \o JsonItems(SubSeq(m, 3, Len(m)))

json_dumps(m) == "{" \o JsonItems(m) \o "}"

\* ------------------------------------------------------------------ state
VARIABLES
  entities,        \* table entities: id -> row
  seq,             \* sqlite_sequence of entities (AUTOINCREMENT high-water mark)
  entities_fts,    \* postings of the FTS5 index: [rowid, name, description, tags]
  fts,             \* features['fts'] returned by init_db
  clock,           \* latest timestamp handed out by now_iso()
  deleted,         \* ids for which delete_entity has returned without raising
  last             \* the latest call: its arguments, outcome and result

vars == <<entities, seq, entities_fts, fts, clock, deleted, last>>

Ids == 1..MaxId

TextCols == {"type", "name", "slug", "description", "tags"}

Cols == TextCols \cup {"metadata"}

\* ----------------------------------------------------------------- inputs
A == <<"a">>
APad == <<"a", " ">>
B == <<"B">>
AB == <<"a", "B">>
X == <<"x">>
T == <<"t">>
Blank == <<" ">>
Dash == <<"-">>
Meta1 == <<"k", "v">>

BaseFields ==
  [type |-> T, name |-> A, slug |-> None, description |-> None,
   tags |-> None, metadata |-> None]

NoFields ==
  [type |-> None, name |-> None, slug |-> None, description |-> None,
   tags |-> None, metadata |-> None]

\* dicts handed to add_entity: one field of a valid dict varied at a time
CreateInputs ==
  {[BaseFields EXCEPT !.type = v] : v \in {None, <<>>, T}}
  \cup {[BaseFields EXCEPT !.name = v] : v \in {Absent, None, <<>>, A, APad, AB}}
  \cup {[BaseFields EXCEPT !.name = AB, !.slug = A]}
  \cup {[BaseFields EXCEPT !.name = AB, !.description = B]}
  \cup {[BaseFields EXCEPT !.name = None, !.slug = X]}

\* dicts handed to update_entity: each single field, and name with its slug
\* as prompt_fields builds them
UpdateInputs ==
  {[NoFields EXCEPT !.type = X], [NoFields EXCEPT !.name = B],
   [NoFields EXCEPT !.slug = A], [NoFields EXCEPT !.slug = X],
   [NoFields EXCEPT !.description = A], [NoFields EXCEPT !.tags = B],
   [NoFields EXCEPT !.metadata = Meta1],
   [NoFields EXCEPT !.name = B, !.slug = slugify(B)]}

Queries == {Blank, APad, B, Dash}

Limits == 1..MaxLimit

\* ------------------------------------------------------------ Record Store
\* now_iso(): every commit happens at a later time than the one before it
now_iso == clock + 1

\* the slug column declared without UNIQUE
SlugTaken_NoUnique(slug, self) == FALSE

\* slug TEXT UNIQUE: another row already holds this slug
SlugTaken(slug, self) ==
  \E i \in DOMAIN entities : i # self /\ entities[i].slug = slug

\* INTEGER PRIMARY KEY AUTOINCREMENT: one more than every id ever used
NextRowid == seq + 1

Posting(id, row) ==
  [rowid |-> id, name |-> row.name, description |-> row.description,
   tags |-> row.tags]

\* trigger entities_ai
entities_ai(idx, id, new) == idx \cup {Posting(id, new)}

\* trigger entities_ad
entities_ad(idx, id, old) == idx \ {Posting(id, old)}

\* entities_au without its 'delete' command: the old posting stays
entities_au_NoRetract(idx, id, old, new) == idx \cup {Posting(id, new)}

\* trigger entities_au: the 'delete' command with the old values, then insert
entities_au(idx, id, old, new) == (idx \ {Posting(id, old)}) \cup {Posting(id, new)}

\* the row add_entity binds to its INSERT
InsertedRow(fields, slug, now) ==
  [type |-> fields.type,
   name |-> IF fields.name = Absent THEN None ELSE fields.name,
   slug |-> slug,
   description |-> fields.description,
   tags |-> fields.tags,
   metadata |-> json_dumps(IF fields.metadata = None THEN <<>> ELSE fields.metadata),
   created_at |-> now,
   updated_at |-> now]

\* fields.get('slug') is truthy
SlugGiven(fields) == fields.slug # None /\ fields.slug # <<>>

\* slug = fields.get('slug') or slugify(fields.get('name', '')), where the
\* call slugify(None) raises AttributeError
SlugFor(fields) ==
  IF SlugGiven(fields) THEN fields.slug
  ELSE slugify(IF fields.name = Absent THEN <<>> ELSE fields.name)

\* add_entity: the slug, the INSERT with its NOT NULL and UNIQUE constraints
\* and its trigger, the commit
add_entity(fields, indexFails) ==
  LET given == SlugGiven(fields)
      slug == SlugFor(fields)
      call == [op |-> "add", fields |-> fields, indexFails |-> indexFails]
      fail(e) ==
        /\ last' = call @@ [status |-> e, id |-> 0]
        /\ UNCHANGED <<entities, seq, entities_fts, clock>>
  IN /\ clock < MaxClock
     /\ seq < MaxId
     /\ IF ~given /\ fields.name = None
        THEN fail("AttributeError")
        ELSE IF fields.type = None \/ fields.name \in {None, Absent}
                \/ SlugTaken(slug, 0)
        THEN fail("IntegrityError")
        ELSE IF fts /\ indexFails
        THEN fail("DatabaseError")
        ELSE LET id == NextRowid
                 row == InsertedRow(fields, slug, now_iso)
             IN /\ entities' = (id :> row) @@ entities
                /\ seq' = id
                /\ entities_fts' = IF fts THEN entities_ai(entities_fts, id, row)
                                   ELSE entities_fts
                /\ clock' = now_iso
                /\ last' = call @@ [status |-> "ok", id |-> id]
     /\ UNCHANGED <<fts, deleted>>

\* update_entity also setting slug = slugify(name) when only the name is given
UpdatedRow_Reslug(old, fields, now) ==
  [type |-> IF fields.type # None THEN fields.type ELSE old.type,
   name |-> IF fields.name # None THEN fields.name ELSE old.name,
   slug |-> IF fields.slug # None THEN fields.slug
            ELSE IF fields.name # None THEN slugify(fields.name) ELSE old.slug,
   description |-> IF fields.description # None THEN fields.description
                   ELSE old.description,
   tags |-> IF fields.tags # None THEN fields.tags ELSE old.tags,
   metadata |-> IF fields.metadata # None THEN json_dumps(fields.metadata)
                ELSE old.metadata,
   created_at |-> old.created_at,
   updated_at |-> now]

\* the SET clause update_entity builds: the supplied non-None fields, the
\* metadata through json.dumps, and updated_at
UpdatedRow(old, fields, now) ==
  [type |-> IF fields.type # None THEN fields.type ELSE old.type,
   name |-> IF fields.name # None THEN fields.name ELSE old.name,
   slug |-> IF fields.slug # None THEN fields.slug ELSE old.slug,
   description |-> IF fields.description # None THEN fields.description
                   ELSE old.description,
   tags |-> IF fields.tags # None THEN fields.tags ELSE old.tags,
   metadata |-> IF fields.metadata # None THEN json_dumps(fields.metadata)
                ELSE old.metadata,
   created_at |-> old.created_at,
   updated_at |-> now]

\* update_entity: UPDATE ... WHERE id = ?, its UNIQUE constraint and trigger,
\* the commit; an id that matches no row updates nothing and raises nothing
update_entity(entity_id, fields, indexFails) ==
  LET call == [op |-> "update", id |-> entity_id, fields |-> fields,
               indexFails |-> indexFails]
      fail(e) ==
        /\ last' = call @@ [status |-> e]
        /\ UNCHANGED <<entities, entities_fts, clock>>
  IN /\ clock < MaxClock
     /\ IF entity_id \notin DOMAIN entities
        THEN /\ last' = call @@ [status |-> "ok"]
             /\ clock' = now_iso
             /\ UNCHANGED <<entities, entities_fts>>
        ELSE IF fields.slug # None /\ SlugTaken(fields.slug, entity_id)
        THEN fail("IntegrityError")
        ELSE IF fts /\ indexFails
        THEN fail("DatabaseError")
        ELSE LET old == entities[entity_id]
                 new == UpdatedRow(old, fields, now_iso)
             IN /\ entities' = [entities EXCEPT ![entity_id] = new]
                /\ entities_fts' = IF fts
                                   THEN entities_au(entities_fts, entity_id, old, new)
                                   ELSE entities_fts
                /\ clock' = now_iso
                /\ last' = call @@ [status |-> "ok"]
     /\ UNCHANGED <<seq, fts, deleted>>

\* delete_entity: DELETE ... WHERE id = ?, its trigger, the commit; an id that
\* matches no row deletes nothing and raises nothing
delete_entity(entity_id, indexFails) ==
  LET call == [op |-> "delete", id |-> entity_id, indexFails |-> indexFails]
  IN /\ clock < MaxClock
     /\ IF entity_id \in DOMAIN entities /\ fts /\ indexFails
        THEN /\ last' = call @@ [status |-> "DatabaseError"]
             /\ UNCHANGED <<entities, entities_fts, deleted, clock>>
        ELSE /\ entities' = [i \in DOMAIN entities \ {entity_id} |-> entities[i]]
             /\ entities_fts' =
                  IF fts /\ entity_id \in DOMAIN entities
                  THEN entities_ad(entities_fts, entity_id, entities[entity_id])
                  ELSE entities_fts
             /\ deleted' = deleted \cup {entity_id}
             /\ clock' = now_iso
             /\ last' = call @@ [status |-> "ok"]
     /\ UNCHANGED <<seq, fts>>

\* fetch_entity: cur.fetchone(), <<row>> for the row and <<>> for None
fetch_entity(entity_id) ==
  IF entity_id \in DOMAIN entities THEN <<entities[entity_id]>> ELSE <<>>

\* ------------------------------------------------------- Search Dispatcher
Take(s, n) == SubSeq(s, 1, Min(n, Len(s)))

\* ORDER BY updated_at DESC over the rows with ids in S; rows stamped alike
\* come out in rowid order
RECURSIVE OrderByUpdatedDesc(_)
OrderByUpdatedDesc(S) ==
  IF S = {} THEN <<>>
  ELSE LET first == CHOOSE i \in S : \A j \in S :
                      \/ entities[i].updated_at > entities[j].updated_at
                      \/ entities[i].updated_at = entities[j].updated_at /\ i <= j
       IN <<first>> \o OrderByUpdatedDesc(S \ {first})

\* ascending rowid, the order FTS5 scans its postings in
RECURSIVE OrderByRowid(_)
OrderByRowid(S) ==
  IF S = {} THEN <<>>
  ELSE LET first == CHOOSE i \in S : \A j \in S : i <= j
       IN <<first>> \o OrderByRowid(S \ {first})

\* column LIKE '%q%': NULL never matches, ASCII case is folded
Like(col, q) ==
  /\ col # None
  /\ \E i \in 1..(Len(col) - Len(q) + 1) :
       SubSeq(LowerStr(col), i, i + Len(q) - 1) = LowerStr(q)

\* the fallback SELECT of search_entities (spec: scanTextMatch)
scanTextMatch(q, limit) ==
  Take(OrderByUpdatedDesc({i \in DOMAIN entities :
         \/ Like(entities[i].name, q)
         \/ Like(entities[i].description, q)
         \/ Like(entities[i].tags, q)}), limit)

\* the empty-query SELECT of search_entities (spec: listRecent)
listRecent(limit) == Take(OrderByUpdatedDesc(DOMAIN entities), limit)

\* the unicode61 tokenizer: maximal alphanumeric runs, case folded
RECURSIVE TokensFrom(_, _)
TokensFrom(s, cur) ==
  LET done == IF cur = <<>> THEN {} ELSE {cur}
  IN IF s = <<>> THEN done
     ELSE IF IsAlnum(s[1]) THEN TokensFrom(Tail(s), Append(cur, Lower(s[1])))
     ELSE done \cup TokensFrom(Tail(s), <<>>)

Tokens(col) == IF col = None THEN {} ELSE TokensFrom(col, <<>>)

\* an FTS5 query string is barewords separated by blanks; any other
\* character here is a syntax error of the MATCH
FtsSyntaxError(q) == \E i \in 1..Len(q) : ~IsAlnum(q[i]) /\ ~IsSpace(q[i])

\* SELECT e.* FROM entities_fts f JOIN entities e ON f.rowid = e.id
\* WHERE entities_fts MATCH q LIMIT limit
FtsMatch(q, limit) ==
  Take(OrderByRowid({p.rowid : p \in {d \in entities_fts :
         /\ d.rowid \in DOMAIN entities
         /\ Tokens(q) \subseteq
              Tokens(d.name) \cup Tokens(d.description) \cup Tokens(d.tags)}}),
       limit)

\* search_entities returning the MATCH result even when it is empty
search_entities_NoFallback(query, limit, matchFails) ==
  LET q == Strip(query)
      raised == matchFails \/ FtsSyntaxError(q)
  IN IF q = <<>> THEN listRecent(limit)
     ELSE IF fts /\ ~raised THEN FtsMatch(q, limit)
     ELSE scanTextMatch(q, limit)

\* search_entities: the ids of the rows it returns, in order. matchFails
\* is the MATCH statement raising for a reason other than its syntax.
search_entities(query, limit, matchFails) ==
  LET q == Strip(query)
      raised == matchFails \/ FtsSyntaxError(q)
  IN IF q = <<>> THEN listRecent(limit)
     ELSE IF fts /\ ~raised /\ FtsMatch(q, limit) # <<>> THEN FtsMatch(q, limit)
     ELSE scanTextMatch(q, limit)

Search(query, limit, matchFails) ==
  /\ last' = [op |-> "search", query |-> query, limit |-> limit,
              matchFails |-> matchFails, status |-> "ok",
              rows |-> search_entities(query, limit, matchFails)]
  /\ UNCHANGED <<entities, seq, entities_fts, fts, clock, deleted>>

\* ---------------------------------------------------------- Ranking Engine
\* A score is the fraction <<numerator, denominator>> of the float the code
\* computes, so that equal scores are equal and the order is exact.
Geq(x, y) == x[1] * y[2] >= y[1] * x[2]

Gt(x, y) == x[1] * y[2] > y[1] * x[2]

Eq(x, y) == x[1] * y[2] = y[1] * x[2]

MaxOf(x, y) == IF Geq(x, y) THEN x ELSE y

OrEmpty(col) == IF col = None THEN <<>> ELSE col

\* difflib find_longest_match without junk: the length of the longest block
LongestBlock(a, b) ==
  LET sizes == {k \in 0..Min(Len(a), Len(b)) :
                  \E i \in 1..(Len(a) - k + 1), j \in 1..(Len(b) - k + 1) :
                    SubSeq(a, i, i + k - 1) = SubSeq(b, j, j + k - 1)}
  IN CHOOSE k \in sizes : \A m \in sizes : m <= k

\* difflib get_matching_blocks: the longest block, earliest in a and then in
\* b, and the blocks to its left and to its right; the total matched length
RECURSIVE MatchCount(_, _)
MatchCount(a, b) ==
  IF a = <<>> \/ b = <<>> THEN 0
  ELSE LET k == LongestBlock(a, b)
           starts == {ij \in (1..(Len(a) - k + 1)) \X (1..(Len(b) - k + 1)) :
                        SubSeq(a, ij[1], ij[1] + k - 1) = SubSeq(b, ij[2], ij[2] + k - 1)}
           at == CHOOSE ij \in starts : \A o \in starts :
                   ij[1] < o[1] \/ (ij[1] = o[1] /\ ij[2] <= o[2])
       IN IF k = 0 THEN 0
          ELSE k + MatchCount(SubSeq(a, 1, at[1] - 1), SubSeq(b, 1, at[2] - 1))
                 + MatchCount(SubSeq(a, at[1] + k, Len(a)), SubSeq(b, at[2] + k, Len(b)))

\* SequenceMatcher(None, a, b).ratio() times `weight`/10 times 100
WeightedRatio(a, b, weight) ==
  IF Len(a) + Len(b) = 0 THEN <<weight * 10, 1>>
  ELSE <<weight * 10 * 2 * MatchCount(a, b), Len(a) + Len(b)>>

\* the difflib branch: max(name_score * 1.2, desc_score) * 100
DifflibScore(query, r) ==
  MaxOf(WeightedRatio(LowerStr(query), LowerStr(OrEmpty(r.name)), 12),
        WeightedRatio(LowerStr(query), LowerStr(OrEmpty(r.description)), 10))

\* scored.sort(key=lambda x: x[1], reverse=True) with every tie put in the
\* reverse of its original order
RECURSIVE SortTiesReversed(_)
SortTiesReversed(scored) ==
  IF scored = <<>> THEN <<>>
  ELSE LET e == scored[Len(scored)]
           done == SortTiesReversed(SubSeq(scored, 1, Len(scored) - 1))
           k == Cardinality({i \in 1..Len(done) : Gt(done[i].score, e.score)})
       IN SubSeq(done, 1, k) \o <<e>> \o SubSeq(done, k + 1, Len(done))

\* scored.sort(key=lambda x: x[1], reverse=True): list.sort is stable, also
\* with reverse=True
RECURSIVE SortReverse(_)
SortReverse(scored) ==
  IF scored = <<>> THEN <<>>
  ELSE LET e == scored[Len(scored)]
           done == SortReverse(SubSeq(scored, 1, Len(scored) - 1))
           k == Cardinality({i \in 1..Len(done) : Geq(done[i].score, e.score)})
       IN SubSeq(done, 1, k) \o <<e>> \o SubSeq(done, k + 1, Len(done))

\* the list `scored` before it is sorted: each row, its place in `rows`, and
\* its score. wratio[i] is the score rapidfuzz's WRatio hands back for row i.
Scored(query, rows, rapidfuzz, wratio) ==
  [i \in 1..Len(rows) |->
     [pos |-> i, row |-> rows[i],
      score |-> IF rapidfuzz THEN <<wratio[i], 1>> ELSE DifflibScore(query, rows[i])]]

\* rank_candidates
rank_candidates(query, rows, top_n, rapidfuzz, wratio) ==
  Take(SortReverse(Scored(query, rows, rapidfuzz, wratio)), top_n)

RankRows ==
  {[id |-> 1, name |-> A, description |-> None],
   [id |-> 2, name |-> AB, description |-> B],
   [id |-> 3, name |-> A, description |-> B]}

CandidateLists == UNION {[1..n -> RankRows] : n \in 0..MaxCands}

\* a call of rank_candidates about to be made
RankCall(q, r, n, rapidfuzz, w) ==
  [op |-> "rank_call", query |-> q, rows |-> r, top_n |-> n,
   rapidfuzz |-> rapidfuzz, wratio |-> w]

Rank ==
  /\ last.op = "rank_call"
  /\ last' = [op |-> "rank", query |-> last.query, rows |-> last.rows,
              top_n |-> last.top_n, rapidfuzz |-> last.rapidfuzz,
              scored |-> Scored(last.query, last.rows, last.rapidfuzz, last.wratio),
              ranked |-> rank_candidates(last.query, last.rows, last.top_n,
                                         last.rapidfuzz, last.wratio)]
  /\ UNCHANGED <<entities, seq, entities_fts, fts, clock, deleted>>

\* ----------------------------------------------------------- specification
\* a new database file after open_conn and init_db
InitStore ==
  /\ entities = <<>>
  /\ seq = 0
  /\ entities_fts = {}
  /\ fts \in BOOLEAN
  /\ clock = 0
  /\ deleted = {}

Init ==
  /\ InitStore
  /\ last = [op |-> "init", status |-> "ok"]

\* a statement of the index can fail only where the index exists
Faults == IF fts THEN BOOLEAN ELSE {FALSE}

Create ==
  \/ \E f \in CreateInputs : add_entity(f, FALSE)
  \/ \E x \in Faults : add_entity(BaseFields, x)

Update ==
  \/ \E i \in Ids, f \in UpdateInputs : update_entity(i, f, FALSE)
  \/ \E i \in Ids, x \in Faults : update_entity(i, [NoFields EXCEPT !.name = B], x)

Delete == \E i \in Ids, x \in Faults : delete_entity(i, x)

Query == \E q \in Queries, n \in Limits, x \in Faults : Search(q, n, x)

Next == Create \/ Update \/ Delete \/ Query

Spec == Init /\ [][Next]_vars

\* the calls of rank_candidates that are run: with difflib, and with
\* rapidfuzz under every scoring of the rows (HAVE_RAPIDFUZZ is fixed when the
\* module is imported)
InitRank ==
  /\ InitStore
  /\ \E r \in CandidateLists, n \in 0..MaxTopN :
       \/ \E q \in {A, B} : last = RankCall(q, r, n, FALSE, <<>>)
       \/ \E w \in [1..Len(r) -> 0..MaxScore] : last = RankCall(A, r, n, TRUE, w)

NextRank == Rank

SpecRank == InitRank /\ [][NextRank]_vars

\* -------------------------------------------------------------- properties
Supplied(fields) == {c \in Cols : fields[c] # None}

RowCols == Cols \cup {"created_at", "updated_at"}

\* the MATCH attempt of a search is not used: no index, it raised, or no rows
FellThrough(query, limit, matchFails) ==
  \/ ~fts
  \/ matchFails
  \/ FtsSyntaxError(Strip(query))
  \/ FtsMatch(Strip(query), limit) = <<>>

SeqRange(s) == {s[i] : i \in 1..Len(s)}

\* C1: with full-text indexing available the index holds exactly one posting
\* per stored row, with that row's current name, description and tags
IndexInSync ==
  fts => entities_fts = {Posting(i, entities[i]) : i \in DOMAIN entities}

IndexInSyncWitness ==
  /\ fts
  /\ last.op = "update" /\ last.status = "ok"
  /\ last.id \in DOMAIN entities
  /\ last.fields.name # None
  /\ entities_fts # {}

SlugUnique ==
  \A i, j \in DOMAIN entities : i # j => entities[i].slug # entities[j].slug

DeletionIsTerminal ==
  \A i \in deleted :
    /\ fetch_entity(i) = <<>>
    /\ \A q \in Queries, n \in Limits, x \in BOOLEAN :
         i \notin SeqRange(search_entities(q, n, x))

\* the ids AUTOINCREMENT has handed out are never handed out again: a row
\* that was stored and deleted stays absent
StoredIdsNeverReused ==
  [][\A i \in 1..seq : i \notin DOMAIN entities => i \notin DOMAIN entities']_vars

\* C5 as amended: for a query that is not blank after trimming, a search
\* whose MATCH attempt is not used returns the substring scan of the trimmed
\* query and raises nothing; otherwise it returns the non-empty MATCH result
SearchDegrades ==
  (last.op = "search" /\ Strip(last.query) # <<>>) =>
     /\ last.status = "ok"
     /\ IF FellThrough(last.query, last.limit, last.matchFails)
        THEN last.rows = scanTextMatch(Strip(last.query), last.limit)
        ELSE /\ last.rows = FtsMatch(Strip(last.query), last.limit)
             /\ last.rows # <<>>

SearchDegradesWitness ==
  /\ last.op = "search" /\ Strip(last.query) # <<>>
  /\ fts /\ ~last.matchFails /\ ~FtsSyntaxError(Strip(last.query))
  /\ FtsMatch(Strip(last.query), last.limit) = <<>>
  /\ last.rows # <<>>

\* C5 as stated: the scan is of the query as passed
SearchDegradesToScanOfQuery ==
  (/\ last.op = "search" /\ Strip(last.query) # <<>>
   /\ FellThrough(last.query, last.limit, last.matchFails))
  => last.rows = scanTextMatch(last.query, last.limit)

\* C6: an update of an id that is not stored fails with NotFound
UpdateOfMissingIdFails ==
  (last.op = "update" /\ last.id \notin DOMAIN entities)
  => last.status = "NotFound"

\* C7: after an update that gives a name and no slug the stored slug is the
\* slug of the new name; after one that gives a slug it is that slug
SlugFollowsName ==
  (last.op = "update" /\ last.status = "ok" /\ last.id \in DOMAIN entities)
  => /\ (last.fields.name # None /\ last.fields.slug = None)
          => entities[last.id].slug = slugify(last.fields.name)
     /\ last.fields.slug # None => entities[last.id].slug = last.fields.slug

\* C8: a create, update or delete whose index maintenance fails still
\* commits and returns
IndexFailureIsSwallowed ==
  (/\ last.op \in {"add", "update", "delete"}
   /\ last.indexFails
   /\ last.status \notin {"AttributeError", "IntegrityError"})
  => last.status = "ok"

\* C9: a create whose type or name is absent or empty fails with the
\* constraint error and returns no id
CreateValidatesRequired ==
  (/\ last.op = "add"
   /\ \/ last.fields.type \in {None, <<>>}
      \/ last.fields.name \in {Absent, None, <<>>})
  => last.status = "IntegrityError" /\ last.id = 0

\* C10: rank returns min(top_n, number of candidates) candidates, each once
\* and with its own score, scores never rising, equal scores in the order of
\* the candidates, and no left-out candidate scoring above a returned one
RankIsStableTopN ==
  last.op = "rank" =>
    LET out == last.ranked
        n == Len(last.rows)
        kept == {out[k].pos : k \in 1..Len(out)}
    IN /\ Len(out) = Min(last.top_n, n)
       /\ \A k \in 1..Len(out) :
            /\ out[k].pos \in 1..n
            /\ out[k].row = last.rows[out[k].pos]
            /\ out[k].score = last.scored[out[k].pos].score
       /\ \A k, l \in 1..Len(out) :
            k < l => /\ out[k].pos # out[l].pos
                     /\ Geq(out[k].score, out[l].score)
                     /\ Eq(out[k].score, out[l].score) => out[k].pos < out[l].pos
       /\ \A i \in (1..n) \ kept, k \in 1..Len(out) :
            ~Gt(last.scored[i].score, out[k].score)

RankIsStableTopNWitness ==
  /\ last.op = "rank"
  /\ Len(last.rows) = 3 /\ last.top_n = 2
  /\ Len(last.ranked) = 2
  /\ last.ranked[1].pos = 2 /\ last.ranked[2].pos = 3
  /\ Eq(last.ranked[1].score, last.ranked[2].score)
  /\ Gt(last.ranked[2].score, last.scored[1].score)

====
